---- MODULE Spec2Model ----
(***************************************************************************)
(* Model of src/main.py: the token estimator (estimate_tokens and the      *)
(* module-level _tokenizer), the conversation store                        *)
(* (st.session_state.messages), the request payload (api_messages), the    *)
(* streaming loop with its TTFT / TPS bookkeeping and the "last response"  *)
(* metrics kept in st.session_state.                                       *)
(*                                                                         *)
(* Texts are sequences of one-character strings.  An optional value is a   *)
(* sequence of length 0 (None) or 1 (the value).  Times are integers in    *)
(* units of half a microsecond, so that a perf_counter difference can lie  *)
(* strictly between 0 and the 1e-6 floor.  A float quotient a / b is kept  *)
(* as the pair [num |-> a, den |-> b].                                     *)
(***************************************************************************)
EXTENDS Integers, Sequences, FiniteSets, TLC

\* ---------------------------------------------------------------- bounds
MaxMessages == 2
MaxChunks == 1
MaxTick == 1
MaxClock == 2
MaxTextLen == 3
MaxBlankLen == 8

\* ------------------------------------------------------------- constants
\* 1e-6 seconds (main.py:254, 266) in units of half a microsecond
Epsilon == 2

\* ------------------------------------------------------------ data model
None == <<>>
Some(x) == <<x>>

Space == " "
Alphabet == {"a", Space}

RECURSIVE SeqsUpTo(_, _)
SeqsUpTo(S, n) ==
    IF n = 0 THEN {<<>>}
    ELSE LET shorter == SeqsUpTo(S, n - 1)
         IN shorter \cup {Append(s, c) : s \in {t \in shorter : Len(t) = n - 1}, c \in S}

RECURSIVE Blank(_)
Blank(n) == IF n = 0 THEN <<>> ELSE Append(Blank(n - 1), Space)

\* the texts the estimator is called with when it is exercised on its own
EstTexts == SeqsUpTo(Alphabet, MaxTextLen) \cup {Blank(n) : n \in 1..MaxBlankLen}

\* what a chunk's choices[0].delta.content can be: None or a (possibly empty) text
Deltas == {None} \cup {Some(t) : t \in {<<>>, <<"a">>, <<"b">>}}

Prompts == {<<"h", "i">>}
SystemMessages == {<<>>, <<Space>>, <<Space, "s">>}
Models == {<<>>, <<Space>>, <<"m">>}

\* the exception classes of the except clause
CaughtErrors == {"APIError", "APIConnectionError", "AuthenticationError", "RateLimitError", "ValueError"}

\* str(e): the description of the error, a text
Str(err) == <<err>>

\* the prefix of the f-string of line 285: the cross mark, then " Error: "
ErrorMarker == <<"x", Space, "E", "r", "r", "o", "r", ":", Space>>

\* the cursor glyph of line 251
Cursor == <<"|">>

Message(role, content) == [role |-> role, content |-> content]

\* ------------------------------------------------------------- str.strip
IsSpace(c) == c = Space

RECURSIVE LStrip(_)
LStrip(s) == IF s # <<>> /\ IsSpace(Head(s)) THEN LStrip(Tail(s)) ELSE s

RECURSIVE RStrip(_)
RStrip(s) ==
    IF s # <<>> /\ IsSpace(s[Len(s)]) THEN RStrip(SubSeq(s, 1, Len(s) - 1)) ELSE s

Strip(s) == RStrip(LStrip(s))

\* str.split(): the maximal runs of non-whitespace characters, in order
RECURSIVE TakeWord(_)
TakeWord(s) == IF s = <<>> \/ IsSpace(Head(s)) THEN <<>> ELSE <<Head(s)>> \o TakeWord(Tail(s))

RECURSIVE Split(_)
Split(s) ==
    LET t == LStrip(s)
    IN IF t = <<>> THEN <<>>
       ELSE LET w == TakeWord(t)
            IN <<w>> \o Split(SubSeq(t, Len(w) + 1, Len(t)))

Max(a, b) == IF a >= b THEN a ELSE b

VARIABLES
    pc,                 \* where the script is: idle, create, stream, or how the last run ended
    messages,           \* st.session_state.messages
    model,              \* sidebar: model name
    system_message,     \* sidebar: system prompt
    api_messages,       \* the payload built for client.chat.completions.create
    full_response,
    tokens_so_far,
    request_start,
    first_token_time,
    gen_elapsed,
    tps,                \* avg_tps while streaming, final_tps at the end
    message_placeholder,
    last_ttft_s,
    last_tokens,
    last_tps,
    last_gen_seconds,
    tokenizer,          \* the module-level _tokenizer
    clock,              \* the value time.perf_counter() last returned
    e,                  \* the exception caught by the except clause
    chunks,             \* history: the deltas delivered in this request
    estimates,          \* history: what estimate_tokens returned for each content delta
    init_attempts,      \* history: how often the tiktoken initialisation ran: never, once, repeated
    est_text,           \* history: argument of the last estimate_tokens call made on its own
    est_result,         \* history: its result
    est_path,           \* history: the path it took
    deleted             \* history: the last delete click, with the store it found

vars == <<pc, messages, model, system_message, api_messages, full_response,
          tokens_so_far, request_start, first_token_time, gen_elapsed, tps,
          message_placeholder, last_ttft_s, last_tokens, last_tps,
          last_gen_seconds, tokenizer, clock, e, chunks, estimates,
          init_attempts, est_text, est_result, est_path, deleted>>

requestVars == <<full_response, tokens_so_far, request_start, first_token_time,
                 gen_elapsed, tps, message_placeholder, chunks, estimates, e>>
lastVars == <<last_ttft_s, last_tokens, last_tps, last_gen_seconds>>
estVars == <<tokenizer, init_attempts>>
callVars == <<est_text, est_result, est_path>>
sidebarVars == <<model, system_message>>

\* the script is not running: it has not run, or its last run ended here
Rest == {"idle", "complete", "failed", "stopped"}

\* ------------------------------------------------------- estimate_tokens
\* lines 17-22: the lazy initialisation; either outcome of the import
InitTokenizer(tok) ==
    IF tok = "None"
    THEN {[tok |-> "Encoding", attempts |-> 1], [tok |-> "False", attempts |-> 1]}
    ELSE {[tok |-> tok, attempts |-> 0]}

\* line 25: len(_tokenizer.encode(text)); a non-empty text has between one
\* token and one token per character
EncodeLengths(text) == 1..Len(text)

\* the fallback without the floor of one: len(text) // 4 alone
FallbackNoMax(text) ==
    LET words == Split(Strip(text))
    IN IF words # <<>> THEN Len(words) ELSE Len(text) \div 4

\* lines 29-32
Fallback(text) ==
    LET words == Split(Strip(text))
    IN IF words # <<>> THEN Len(words) ELSE Max(1, Len(text) \div 4)

\* the history of initialisation attempts after n more of them (n is 0 or 1)
CountAttempts(history, n) ==
    IF n = 0 THEN history
    ELSE IF history = "never" THEN "once" ELSE "repeated"

\* the outcomes of one call estimate_tokens(text) with _tokenizer = tok;
\* text is optional (None or Some(text))
EstimateOutcomes(text, tok) ==
    IF text = None \/ text[1] = <<>>
    THEN {[ret |-> 0, tok |-> tok, attempts |-> 0, path |-> "empty"]}
    ELSE UNION {
           IF i.tok = "Encoding"
           THEN {[ret |-> n, tok |-> i.tok, attempts |-> i.attempts, path |-> "tokenizer"]
                    : n \in EncodeLengths(text[1])}
                \cup {[ret |-> Fallback(text[1]), tok |-> i.tok, attempts |-> i.attempts,
                       path |-> "encode_failed"]}
           ELSE {[ret |-> Fallback(text[1]), tok |-> i.tok, attempts |-> i.attempts,
                  path |-> "fallback"]}
           : i \in InitTokenizer(tok)}

Init ==
    /\ pc = "idle"
    /\ messages = <<>>
    /\ model = <<>>
    /\ system_message = <<>>
    /\ api_messages = <<>>
    /\ full_response = <<>>
    /\ tokens_so_far = 0
    /\ request_start = 0
    /\ first_token_time = None
    /\ gen_elapsed = None
    /\ tps = None
    /\ message_placeholder = <<>>
    /\ last_ttft_s = None
    /\ last_tokens = None
    /\ last_tps = None
    /\ last_gen_seconds = None
    /\ tokenizer = "None"
    /\ clock = 0
    /\ e = None
    /\ chunks = <<>>
    /\ estimates = <<>>
    /\ init_attempts = "never"
    /\ est_text = None
    /\ est_result = 0
    /\ est_path = "none"
    /\ deleted = None

\* one call of estimate_tokens on its own
EstimateCall(text) ==
    /\ \E o \in EstimateOutcomes(text, tokenizer) :
          /\ tokenizer' = o.tok
          /\ init_attempts' = CountAttempts(init_attempts, o.attempts)
          /\ est_text' = text
          /\ est_result' = o.ret
          /\ est_path' = o.path
    /\ UNCHANGED <<pc, messages, api_messages, clock, deleted>>
    /\ UNCHANGED requestVars
    /\ UNCHANGED lastVars
    /\ UNCHANGED sidebarVars

NextEst == \E text \in {None} \cup {Some(t) : t \in EstTexts} : EstimateCall(text)

SpecEst == Init /\ [][NextEst]_vars

\* a rerun of the script that does not reach line 194: line 8 sets _tokenizer
\* to None again and the names of lines 203-287 stay unassigned; the sidebar
\* values are read but not used, and are taken to be empty
FreshRun ==
    /\ tokenizer' = "None"
    /\ clock' = 0
    /\ model' = <<>>
    /\ system_message' = <<>>
    /\ api_messages' = <<>>
    /\ full_response' = <<>>
    /\ tokens_so_far' = 0
    /\ request_start' = 0
    /\ first_token_time' = None
    /\ gen_elapsed' = None
    /\ tps' = None
    /\ message_placeholder' = <<>>
    /\ e' = None
    /\ chunks' = <<>>
    /\ estimates' = <<>>

\* ----------------------------------------------------- conversation store
\* list.pop() without its index: the last message goes
PopLast(msgs, i) == SubSeq(msgs, 1, Len(msgs) - 1)

\* list.pop(i) for 0 <= i < len(list); i counts from 0
Pop(msgs, i) == SubSeq(msgs, 1, i) \o SubSeq(msgs, i + 2, Len(msgs))

\* line 181: the indexes enumerate() yields, one delete button each
RenderedIndexes(msgs) == 0 .. (Len(msgs) - 1)

\* lines 181-191: the script reruns after a click on the button with key
\* delete_<key>; only the buttons the loop renders can report the click
Delete(key) ==
    /\ pc \in Rest
    /\ LET hit == {i \in RenderedIndexes(messages) : i = key}
       IN messages' = IF hit # {} THEN Pop(messages, CHOOSE i \in hit : TRUE) ELSE messages
    /\ deleted' = Some([key |-> key, before |-> messages])
    /\ pc' = "idle"
    /\ FreshRun
    /\ UNCHANGED init_attempts
    /\ UNCHANGED lastVars
    /\ UNCHANGED callVars

\* lines 154-156: "Clear All Messages"
Clear ==
    /\ pc \in Rest
    /\ messages' = <<>>
    /\ deleted' = None
    /\ pc' = "idle"
    /\ FreshRun
    /\ UNCHANGED init_attempts
    /\ UNCHANGED lastVars
    /\ UNCHANGED callVars

\* ------------------------------------------------------- request payload
\* the payload with the test of line 206 made on the untrimmed prompt
BuildApiMessagesNoStrip(sys, msgs) ==
    (IF sys # <<>> THEN <<Message("system", sys)>> ELSE <<>>) \o msgs

\* lines 203-210
BuildApiMessages(sys, msgs) ==
    (IF Strip(sys) # <<>> THEN <<Message("system", sys)>> ELSE <<>>) \o msgs

\* line 213: not model.strip()
ModelMissing(mdl) == Strip(mdl) = <<>>

\* each call of time.perf_counter() returns a value not below the last one;
\* the origin of perf_counter is arbitrary and the code uses differences only,
\* so times are counted from the perf_counter call of line 224
Ticks == {d \in 0..MaxTick : clock + d <= MaxClock}

\* lines 194-225: a prompt is submitted with the sidebar holding sys and mdl
Submit(prompt, sys, mdl) ==
    /\ pc \in Rest
    /\ Len(messages) + 2 <= MaxMessages
    /\ model' = mdl
    /\ system_message' = sys
    /\ messages' = Append(messages, Message("user", prompt))
    /\ api_messages' = BuildApiMessages(sys, messages')
    /\ deleted' = None
    /\ chunks' = <<>>
    /\ estimates' = <<>>
    /\ e' = None
    /\ gen_elapsed' = None
    /\ tps' = None
    /\ full_response' = <<>>
    /\ tokens_so_far' = 0
    /\ first_token_time' = None
    /\ message_placeholder' = <<>>
    /\ tokenizer' = "None"
    /\ clock' = 0
    /\ request_start' = clock'
    /\ pc' = IF ModelMissing(mdl) THEN "stopped" ELSE "create"
    /\ UNCHANGED init_attempts
    /\ UNCHANGED lastVars
    /\ UNCHANGED callVars

\* lines 229-238: the call returns a stream
CreateOk ==
    /\ pc = "create"
    /\ pc' = "stream"
    /\ UNCHANGED <<messages, api_messages, clock, deleted>>
    /\ UNCHANGED requestVars
    /\ UNCHANGED lastVars
    /\ UNCHANGED estVars
    /\ UNCHANGED callVars
    /\ UNCHANGED sidebarVars

\* the elapsed time without the floor
GenElapsedNoFloor(now, ftt) == now - ftt

\* line 254 / 266: max(1e-6, now - first_token_time)
GenElapsed(now, ftt) == Max(Epsilon, now - ftt)

Quotient(a, b) == [num |-> a, den |-> b]

\* the float literal 0.0
Zero == Quotient(0, 1)

\* line 248
Accumulate(text, piece) == text \o piece

\* line 249
AddTokens(total, n) == total + n

\* lines 241-259: the loop body for one chunk
Chunk(delta, d1, d2) ==
    /\ pc = "stream"
    /\ Len(chunks) < MaxChunks
    /\ chunks' = Append(chunks, delta)
    /\ IF delta = None
       THEN /\ UNCHANGED <<full_response, tokens_so_far, request_start, first_token_time,
                           gen_elapsed, tps, message_placeholder, estimates, e, clock>>
            /\ UNCHANGED estVars
       ELSE LET piece == delta[1]
                t1 == IF first_token_time = None THEN clock + d1 ELSE clock
                ftt == IF first_token_time = None THEN Some(t1) ELSE first_token_time
                now == t1 + d2
            IN /\ first_token_time = None \/ d1 = 0
               /\ now <= MaxClock
               /\ first_token_time' = ftt
               /\ full_response' = Accumulate(full_response, piece)
               /\ \E o \in EstimateOutcomes(Some(piece), tokenizer) :
                     /\ tokenizer' = o.tok
                     /\ init_attempts' = CountAttempts(init_attempts, o.attempts)
                     /\ estimates' = Append(estimates, o.ret)
                     /\ tokens_so_far' = AddTokens(tokens_so_far, o.ret)
               /\ message_placeholder' = full_response' \o Cursor
               /\ IF ftt # None
                  THEN /\ gen_elapsed' = Some(GenElapsed(now, ftt[1]))
                       /\ tps' = Some(Quotient(tokens_so_far', gen_elapsed'[1]))
                  ELSE UNCHANGED <<gen_elapsed, tps>>
               /\ clock' = now
               /\ UNCHANGED <<request_start, e>>
    /\ pc' = "stream"
    /\ UNCHANGED <<messages, api_messages, deleted>>
    /\ UNCHANGED lastVars
    /\ UNCHANGED callVars
    /\ UNCHANGED sidebarVars

\* lines 273-276 and 279-282: the values saved to st.session_state
FinalMetrics(start, ftt, tokens, end_time) ==
    IF ftt # None
    THEN LET elapsed == GenElapsed(end_time, ftt[1])
         IN [ttft_s |-> Some(ftt[1] - start), tokens |-> tokens,
             tps |-> Quotient(tokens, elapsed), gen_seconds |-> elapsed,
             divided |-> TRUE]
    ELSE [ttft_s |-> None, tokens |-> 0, tps |-> Zero, gen_seconds |-> 0,
          divided |-> FALSE]

\* lines 261-282 and 290-291: the iterator is exhausted
StreamEnd(d) ==
    /\ pc = "stream"
    /\ message_placeholder' = full_response
    /\ clock' = clock + d
    /\ LET m == FinalMetrics(request_start, first_token_time, tokens_so_far, clock')
       IN /\ last_ttft_s' = m.ttft_s
          /\ last_tokens' = Some(m.tokens)
          /\ last_tps' = Some(m.tps)
          /\ last_gen_seconds' = Some(m.gen_seconds)
          /\ IF m.divided
             THEN gen_elapsed' = Some(m.gen_seconds) /\ tps' = Some(m.tps)
             ELSE UNCHANGED <<gen_elapsed, tps>>
    /\ messages' = Append(messages, Message("assistant", full_response))
    /\ pc' = "complete"
    /\ UNCHANGED <<api_messages, deleted, full_response, tokens_so_far, request_start,
                   first_token_time, chunks, estimates, e>>
    /\ UNCHANGED estVars
    /\ UNCHANGED callVars
    /\ UNCHANGED sidebarVars

\* line 285
ErrorMsg(err) == ErrorMarker \o Str(err)

\* the error text added to the partial text instead of replacing it
FailedResponseAppended(text, msg) == text \o msg

\* line 287: what full_response becomes in the except clause
FailedResponse(text, msg) == msg

\* lines 284-291: create() or the iteration raises one of the caught errors
Fail(err) ==
    /\ pc \in {"create", "stream"}
    /\ e' = Some(err)
    /\ message_placeholder' = ErrorMsg(err)
    /\ full_response' = FailedResponse(full_response, ErrorMsg(err))
    /\ messages' = Append(messages, Message("assistant", full_response'))
    /\ pc' = "failed"
    /\ UNCHANGED <<api_messages, deleted, clock, tokens_so_far, request_start,
                   first_token_time, gen_elapsed, tps, chunks, estimates>>
    /\ UNCHANGED lastVars
    /\ UNCHANGED estVars
    /\ UNCHANGED callVars
    /\ UNCHANGED sidebarVars

Next ==
    \/ \E key \in 0..MaxMessages : Delete(key)
    \/ Clear
    \/ \E prompt \in Prompts, sys \in SystemMessages, mdl \in Models :
          Submit(prompt, sys, mdl)
    \/ CreateOk
    \/ \E delta \in Deltas, d1 \in 0..MaxTick, d2 \in 0..MaxTick : Chunk(delta, d1, d2)
    \/ \E d \in Ticks : StreamEnd(d)
    \/ \E err \in CaughtErrors : Fail(err)

Spec == Init /\ [][Next]_vars

\* ------------------------------------------------------------ properties
RECURSIVE SumSeq(_)
SumSeq(q) == IF q = <<>> THEN 0 ELSE Head(q) + SumSeq(Tail(q))

\* the deltas that are not None, put together in arrival order
RECURSIVE ConcatDeltas(_)
ConcatDeltas(q) ==
    IF q = <<>> THEN <<>>
    ELSE (IF Head(q) = None THEN <<>> ELSE Head(q)[1]) \o ConcatDeltas(Tail(q))

HasPrefix(text, prefix) ==
    Len(text) >= Len(prefix) /\ SubSeq(text, 1, Len(prefix)) = prefix

Contains(text, piece) ==
    \E i \in 0 .. (Len(text) - Len(piece)) : SubSeq(text, i + 1, i + Len(piece)) = piece

\* the chunks delivered so far whose delta is a non-empty text
ContentChunks == {i \in 1..Len(chunks) : chunks[i] # None /\ chunks[i][1] # <<>>}

LastMessage == messages[Len(messages)]

\* the slot as the footer reads it (lines 310-320): a key that was never
\* written reads as None, 0, 0.0, 0.0
SlotIsAbsentZero ==
    /\ last_ttft_s = None
    /\ last_tokens \in {None, Some(0)}
    /\ last_tps \in {None, Some(Zero)}
    /\ last_gen_seconds \in {None, Some(0)}

\* C1: when a request ends in a caught API error, the last-response metrics
\* slot holds the absent/zero case for this request (no time to first token,
\* 0 tokens, 0.0 tokens per second, 0.0 seconds), also after an earlier request
\* that succeeded.
C1_FailedRequestRecordsAbsentZero == pc = "failed" => SlotIsAbsentZero

\* C2: while a response streams, first_token_time is set if and only if a
\* chunk with a non-empty content delta has arrived (absent and empty deltas
\* leave it absent), and the time to first token is not negative.
C2_FirstTokenTimeOnFirstNonEmptyDelta ==
    pc = "stream" =>
        /\ first_token_time # None <=> ContentChunks # {}
        /\ first_token_time # None => first_token_time[1] - request_start >= 0

\* C3: every failure path of a submitted prompt, the missing model name
\* included, ends with the user's message followed by one error-flagged
\* assistant message at the end of the store.
C3_EveryFailureEndsWithErrorReply ==
    pc \in {"failed", "stopped"} =>
        /\ Len(messages) >= 2
        /\ messages[Len(messages) - 1].role = "user"
        /\ LastMessage.role = "assistant"
        /\ HasPrefix(LastMessage.content, ErrorMarker)

\* C4: after a caught API error, whatever was accumulated before it, the
\* finalized text is the error marker followed by the error's description,
\* the assistant message appended to the store has exactly that content, and
\* none of the deltas received is part of it.
C4_ErrorTextReplacesPartialContent ==
    pc = "failed" =>
        /\ e # None
        /\ full_response = ErrorMarker \o Str(e[1])
        /\ LastMessage = [role |-> "assistant", content |-> ErrorMarker \o Str(e[1])]
        /\ \A i \in ContentChunks : ~Contains(LastMessage.content, chunks[i][1])

\* a request failed after content had been accumulated
C4_Witness ==
    /\ pc = "failed"
    /\ ContentChunks # {}
    /\ LastMessage.content = ErrorMarker \o Str("RateLimitError")

\* C5: in every live computation and in the final one the divisor of the
\* tokens-per-second quotient is at least the 1e-6 floor, so the quotient is
\* finite and not negative; and when no first token time was set no division
\* is made and 0.0 is recorded.
C5_TpsDenominatorFloored ==
    /\ gen_elapsed # None =>
          /\ gen_elapsed[1] >= Epsilon
          /\ tps # None
          /\ tps[1].den = gen_elapsed[1]
          /\ tps[1].den > 0
          /\ tps[1].num >= 0
    /\ (pc \in {"stream", "complete"} /\ first_token_time # None) => gen_elapsed # None
    /\ (pc = "complete" /\ first_token_time # None) =>
          /\ last_gen_seconds # None /\ last_gen_seconds[1] >= Epsilon
          /\ last_tps = Some([num |-> tokens_so_far, den |-> last_gen_seconds[1]])
    /\ (pc \in {"stream", "complete"} /\ first_token_time = None) =>
          gen_elapsed = None /\ tps = None
    /\ (pc = "complete" /\ first_token_time = None) =>
          last_tps = Some([num |-> 0, den |-> 1]) /\ last_gen_seconds = Some(0)

\* the clock has not moved since the first token and tokens were counted
C5_Witness ==
    /\ pc = "stream"
    /\ first_token_time = Some(clock)
    /\ tokens_so_far > 0
    /\ gen_elapsed = Some(Epsilon)

C6_WitnessInRange ==
    /\ deleted # None
    /\ Len(deleted[1].before) = 2
    /\ deleted[1].key = 0
    /\ messages = <<deleted[1].before[2]>>

C7_WitnessBlank ==
    /\ pc = "create"
    /\ system_message = <<Space>>
    /\ api_messages = messages

\* the number of whitespace-delimited words of a text
WordCount(text) ==
    Cardinality({i \in 1..Len(text) :
                    text[i] # Space /\ (i = 1 \/ text[i - 1] = Space)})

IsBlank(text) == \A i \in 1..Len(text) : text[i] = Space

\* what the claim says of every call: 0 for empty or absent text, at least 1
\* otherwise, and on the fallback paths the word count or max(1, chars / 4)
EstimateContract ==
    est_path # "none" =>
        /\ (est_text = None \/ est_text[1] = <<>>) => est_result = 0
        /\ (est_text # None /\ est_text[1] # <<>>) =>
              /\ est_result >= 1
              /\ est_path \in {"fallback", "encode_failed"} =>
                    est_result = IF WordCount(est_text[1]) >= 1
                                 THEN WordCount(est_text[1])
                                 ELSE Max(1, Len(est_text[1]) \div 4)

\* C8 as stated: the contract above, and every whitespace-only text yields 1
\* on the fallback path.
C8_Original ==
    /\ EstimateContract
    /\ (/\ est_path \in {"fallback", "encode_failed"}
        /\ est_text # None /\ est_text[1] # <<>> /\ IsBlank(est_text[1])) => est_result = 1

\* C8: estimate returns 0 for empty or absent text and at least 1 for every
\* other text on every path; on the fallback path it is the word count of the
\* trimmed text when there is a word, otherwise max(1, floor(chars / 4)), so
\* that a whitespace-only text yields 1 only when it has fewer than 8
\* characters and floor(chars / 4) from 8 characters on.
C8_Estimate ==
    /\ EstimateContract
    /\ (/\ est_path \in {"fallback", "encode_failed"}
        /\ est_text # None /\ est_text[1] # <<>> /\ IsBlank(est_text[1])) =>
           /\ Len(est_text[1]) < 8 => est_result = 1
           /\ Len(est_text[1]) >= 8 => est_result = Len(est_text[1]) \div 4

\* eight spaces on the fallback path give 2
C8_Witness ==
    /\ est_path = "fallback"
    /\ est_text = Some(Blank(8))
    /\ est_result = 2

\* C9: the tokenizer initialisation is attempted at most once over all calls
\* of estimate_tokens.
C9_InitAttemptedAtMostOnce == init_attempts # "repeated"

\* C10: when the stream ends without error the assistant message is the
\* concatenation of the deltas in arrival order, the slot's token count is
\* the sum of the per-delta estimates, and if no chunk carried content the
\* text is empty, first_token_time is absent and the slot holds the
\* absent/zero case.
C10_CompletedStream ==
    pc = "complete" =>
        /\ LastMessage = [role |-> "assistant", content |-> ConcatDeltas(chunks)]
        /\ last_tokens = Some(SumSeq(estimates))
        /\ ContentChunks = {} =>
              /\ full_response = <<>>
              /\ first_token_time = None
              /\ last_ttft_s = None
              /\ last_tokens = Some(0)
              /\ last_tps = Some(Zero)

====
